---- MODULE Spec2Model ----
(***************************************************************************)
(* Model of the biggie runtime support layer:                              *)
(*   - src/runtime/defer.cpp   the scope-exit guard (__DeferFunc / defer)   *)
(*   - src/runtime/array.cpp   Array<T> and its fmt formatter               *)
(*   - src/runtime/biggie.c    the C dialect's println(format, args)        *)
(* Each component has its own specification (SpecDefer, SpecCopy,          *)
(* SpecArray, SpecFormat, SpecPrintln); the variables of the components a  *)
(* specification does not exercise stay at their initial values.           *)
(***************************************************************************)
EXTENDS Integers, Sequences, FiniteSets, TLC

VARIABLES
  \* ---- defer.cpp ----
  scopes,     \* stack of open lexical scopes, innermost last; each frame is
              \* [id, objs]: objs are the live __DeferFunc objects of the
              \* scope in order of construction
  fired,      \* log of func() invocations: the action ids, in call order
  declared,   \* history of `defer` statements: <<[func, scope]>> in order
  exitOf,     \* scope id -> "unopened" | "open" | the path it was left by
  pc,         \* "body" | "unwinding" | "done"
  toLeave,    \* scopes the exit in progress still has to leave
  copies,     \* number of explicit copy-constructions made so far
  \* ---- array.cpp: class Array ----
  heap,       \* vector storage: address -> sequence of elements
  arrays,     \* Array slot -> [live, data |-> address of its _data]
  last,       \* the last Array operation: what was called and what it returned
  run,        \* [self, vals]: the Array that was constructed empty and only
              \* pushed to in every call since, and the values pushed (self = 0:
              \* the last calls are no such run)
  copied,     \* [copy, src]: the latest copy-construction (0, 0: none yet)
  \* ---- array.cpp: fmt::formatter<Array<T>>::format ----
  fArray,     \* the array being rendered
  fI,         \* the loop index i
  fOut,       \* the text written to ctx.out() so far
  fPc,        \* "open" | "loop" | "done"
  \* ---- biggie.c: println ----
  pFormat,    \* format.data: the bytes at and after the pointer
  pLength,    \* format.length
  pArgs,      \* the objects args[] points to
  pI,         \* i
  pArgIndex,  \* argIndex
  pOut,       \* stdout
  pReads,     \* the indices of format.data that were read
  pPc         \* "scan" | "done" | "undefined"

deferVars  == <<scopes, fired, declared, exitOf, pc, toLeave, copies>>
arrayVars  == <<heap, arrays, last, run, copied>>
formatVars == <<fArray, fI, fOut, fPc>>
printVars  == <<pFormat, pLength, pArgs, pI, pArgIndex, pOut, pReads, pPc>>
vars == <<deferVars, arrayVars, formatVars, printVars>>

-----------------------------------------------------------------------------
(* Bounds *)
MaxGuards == 3   \* defer statements executed in one run
MaxScopes == 3   \* scopes opened in one run
MaxDepth  == 2   \* nesting depth of open scopes
MaxCopies == 1   \* explicit copies of a guard in one run
MaxArrays == 2   \* Array objects constructed in one run
MaxLen    == 2   \* elements an Array grows to
MaxInit   == 2   \* elements of an initializer list
MaxFmtLen == 3   \* elements of a rendered Array
MaxFormat == 3   \* format.length of the drawn format strings
Values    == {1, 2}   \* the element values (T = int32)
FmtValues == {0, 1, 2, 3, 10, -7}   \* the elements of a rendered Array

-----------------------------------------------------------------------------
(* Helpers *)
RECURSIVE Count(_, _)
Count(s, x) ==
  IF s = <<>> THEN 0 ELSE (IF Head(s) = x THEN 1 ELSE 0) + Count(Tail(s), x)

RemoveAt(s, i) == SubSeq(s, 1, i - 1) \o SubSeq(s, i + 1, Len(s))

RECURSIVE Reverse(_)
Reverse(s) == IF s = <<>> THEN <<>> ELSE Reverse(Tail(s)) \o <<Head(s)>>

RECURSIVE SelectFuncs(_, _)
\* the action ids of the entries of `log` that belong to the set `keep`
SelectFuncs(log, keep) ==
  IF log = <<>> THEN <<>>
  ELSE (IF Head(log) \in keep THEN <<Head(log)>> ELSE <<>>)
         \o SelectFuncs(Tail(log), keep)

IsPrefix(p, s) == Len(p) <= Len(s) /\ SubSeq(s, 1, Len(p)) = p

-----------------------------------------------------------------------------
(* defer.cpp *)

ExitPaths == {"fallthrough", "return", "break", "continue", "throw"}

\* __DeferFunc(T func) : func(func) {}
DeferFuncCtor(func) == [func |-> func]

\* __DeferFunc(const __DeferFunc &other) : func(other.func) {}
DeferFuncCopyCtor(other) == [func |-> other.func]

DeferFuncDtor_NoCall(log, self) == log
\* ~__DeferFunc() { func(); }
DeferFuncDtor(log, self) == Append(log, self.func)

\* __CaptureDeferFunc::operator+(T t) { return t; }: the returned __DeferFunc
\* is initialised from t by the converting constructor, in place (the copy a
\* pre-C++17 build may make of it is elided), and the reference the macro
\* binds extends its lifetime to the end of the scope
OperatorPlus(t) == DeferFuncCtor(t)

NextDestroyed_Fifo(objs) == 1
\* `const auto &__defer_N = ...` binds the guard to a reference of automatic
\* storage duration: the guards of a scope are destroyed at its exit, the
\* last constructed first
NextDestroyed(objs) == Len(objs)

Depth == Len(scopes)
Innermost == scopes[Depth]
OpenedScopes == {s \in 1..MaxScopes : exitOf[s] # "unopened"}

DeferInit ==
  /\ scopes = <<[id |-> 1, objs |-> <<>>]>>
  /\ fired = <<>>
  /\ declared = <<>>
  /\ exitOf = [s \in 1..MaxScopes |-> IF s = 1 THEN "open" ELSE "unopened"]
  /\ pc = "body"
  /\ toLeave = 0
  /\ copies = 0

\* a nested block is entered
EnterScope ==
  /\ UNCHANGED <<arrayVars, formatVars, printVars>>
  /\ pc = "body"
  /\ Depth < MaxDepth
  /\ Cardinality(OpenedScopes) < MaxScopes
  /\ LET s == Cardinality(OpenedScopes) + 1 IN
       /\ scopes' = Append(scopes, [id |-> s, objs |-> <<>>])
       /\ exitOf' = [exitOf EXCEPT ![s] = "open"]
  /\ UNCHANGED <<fired, declared, pc, toLeave, copies>>

\* defer { ... };   i.e.
\* const auto &__defer_LINE = __CaptureDeferFunc() + [&]() { ... };
Defer ==
  /\ UNCHANGED <<arrayVars, formatVars, printVars>>
  /\ pc = "body"
  /\ Len(declared) < MaxGuards
  /\ LET g == Len(declared) + 1
         obj == OperatorPlus(g) IN
       /\ scopes' = [scopes EXCEPT ![Depth].objs = Append(@, obj)]
       /\ declared' = Append(declared, [func |-> g, scope |-> Innermost.id])
  /\ UNCHANGED <<fired, exitOf, pc, toLeave, copies>>

\* auto c = __defer_N;   an explicit copy of a live guard into the current scope
CopyConstruct ==
  /\ UNCHANGED <<arrayVars, formatVars, printVars>>
  /\ pc = "body"
  /\ copies < MaxCopies
  /\ \E f \in 1..Depth :
       \E i \in 1..Len(scopes[f].objs) :
         scopes' = [scopes EXCEPT ![Depth].objs =
                      Append(@, DeferFuncCopyCtor(scopes[f].objs[i]))]
  /\ copies' = copies + 1
  /\ UNCHANGED <<fired, declared, exitOf, pc, toLeave>>

\* the number of scopes an exit path can leave at once
Leaves(path) ==
  CASE path = "fallthrough" -> {1}
    [] path = "return"      -> {Depth}
    [] path = "break"       -> 1..(Depth - 1)
    [] path = "continue"    -> 1..(Depth - 1)
    [] path = "throw"       -> 1..Depth

\* control leaves the k innermost scopes by `path`
ExitScope(path, k) ==
  /\ UNCHANGED <<arrayVars, formatVars, printVars>>
  /\ pc = "body"
  /\ k \in Leaves(path)
  /\ exitOf' = [s \in 1..MaxScopes |->
                  IF \E f \in (Depth - k + 1)..Depth : scopes[f].id = s
                  THEN path ELSE exitOf[s]]
  /\ pc' = "unwinding"
  /\ toLeave' = k
  /\ UNCHANGED <<scopes, fired, declared, copies>>

\* the next guard of the scope being left is destroyed
Dtor ==
  /\ UNCHANGED <<arrayVars, formatVars, printVars>>
  /\ pc = "unwinding"
  /\ Innermost.objs # <<>>
  /\ LET i == NextDestroyed(Innermost.objs) IN
       /\ fired' = DeferFuncDtor(fired, Innermost.objs[i])
       /\ scopes' = [scopes EXCEPT ![Depth].objs = RemoveAt(@, i)]
  /\ UNCHANGED <<declared, exitOf, pc, toLeave, copies>>

\* all guards of the scope being left are destroyed: the scope is gone
LeaveScope ==
  /\ UNCHANGED <<arrayVars, formatVars, printVars>>
  /\ pc = "unwinding"
  /\ Innermost.objs = <<>>
  /\ scopes' = SubSeq(scopes, 1, Depth - 1)
  /\ toLeave' = toLeave - 1
  /\ pc' = IF Depth = 1 THEN "done"
           ELSE IF toLeave = 1 THEN "body" ELSE "unwinding"
  /\ UNCHANGED <<fired, declared, exitOf, copies>>

DeferNext ==
  \/ EnterScope
  \/ Defer
  \/ \E path \in ExitPaths, k \in 1..MaxDepth : ExitScope(path, k)
  \/ Dtor
  \/ LeaveScope

-----------------------------------------------------------------------------
(* array.cpp: template <typename T> class Array { std::vector<T> _data; } *)

Slots == 1..MaxArrays

\* the sequences over S of length at most n
SeqsUpTo(S, n) == UNION {[1..m -> S] : m \in 0..n}

\* Array(const std::initializer_list<T> data) { _data = std::vector<T>(data); }
ArrayInitCtor(h, addr, data) ==
  [heap |-> [h EXCEPT ![addr] = data], obj |-> [live |-> TRUE, data |-> addr]]

ArrayCopyCtor_Shallow(h, addr, source) ==
  [heap |-> h, obj |-> [live |-> TRUE, data |-> source.data]]
\* Array(const Array &source) { _data = source._data; }
\* vector copy assignment: the new vector's own storage receives the elements
ArrayCopyCtor(h, addr, source) ==
  [heap |-> [h EXCEPT ![addr] = h[source.data]],
   obj  |-> [live |-> TRUE, data |-> addr]]

\* Array(Array &&source) { _data = source._data; }
\* `source` is a named reference, hence an lvalue: this is vector copy
\* assignment again, and source._data is left as it was
ArrayMoveCtor(h, addr, source) ==
  [heap |-> [h EXCEPT ![addr] = h[source.data]],
   obj  |-> [live |-> TRUE, data |-> addr]]

\* T operator[](size_t i) const { return _data[i]; }
ArrayIndex(h, self, i) == h[self.data][i + 1]

\* size_t length() const { return _data.size(); }
ArrayLength(h, self) == Len(h[self.data])

ArrayPush_ReturnsOldSize(h, self, element) ==
  [heap |-> [h EXCEPT ![self.data] = Append(@, element)],
   ret  |-> Len(h[self.data])]
\* size_t push(T element) { _data.push_back(element); return _data.size(); }
ArrayPush(h, self, element) ==
  LET h2 == [h EXCEPT ![self.data] = Append(@, element)] IN
    [heap |-> h2, ret |-> Len(h2[self.data])]

\* T pop() { T result = _data[_data.size() - 1]; _data.pop_back(); return result; }
ArrayPop(h, self) ==
  LET size == Len(h[self.data])
      result == h[self.data][size] IN
    [heap |-> [h EXCEPT ![self.data] = SubSeq(@, 1, size - 1)], ret |-> result]

\* what a caller observes of slot k through length() and operator[]
ContentsIn(h, arrs, k) ==
  IF arrs[k].live
  THEN [i \in 1..ArrayLength(h, arrs[k]) |-> ArrayIndex(h, arrs[k], i - 1)]
  ELSE <<>>
Contents(k) == ContentsIn(heap, arrays, k)
\* the same after the step
ContentsAfter(k) == ContentsIn(heap', arrays', k)

\* storage for the _data member of an Array under construction
FreshAddr == CHOOSE a \in Slots : \A k \in Slots : ~(arrays[k].live /\ arrays[k].data = a)

\* Array objects are numbered in the order of their construction
IsNextSlot(k) == ~arrays[k].live /\ \A j \in 1..(k - 1) : arrays[j].live

NoRun == [self |-> 0, vals |-> <<>>]

ArrayInit ==
  /\ heap = [a \in Slots |-> <<>>]
  /\ arrays = [k \in Slots |-> [live |-> FALSE, data |-> 0]]
  /\ last = [op |-> "none", self |-> 0, src |-> 0, arg |-> 0, ret |-> 0]
  /\ run = NoRun
  /\ copied = [copy |-> 0, src |-> 0]

\* the call just made: the operation, the Array it was made on, the source
\* of a construction, the argument and the returned value
Record(op, self, src, arg, ret) ==
  last' = [op |-> op, self |-> self, src |-> src, arg |-> arg, ret |-> ret]

\* Array<T> a = {e1, ..., en};
Construct(k, data) ==
  /\ UNCHANGED <<deferVars, formatVars, printVars>>
  /\ IsNextSlot(k)
  /\ LET r == ArrayInitCtor(heap, FreshAddr, data) IN
       /\ heap' = r.heap
       /\ arrays' = [arrays EXCEPT ![k] = r.obj]
  /\ Record("init", k, 0, 0, 0)
  /\ run' = IF data = <<>> THEN [self |-> k, vals |-> <<>>] ELSE NoRun
  /\ UNCHANGED copied

\* Array<T> b = a;   or   Array<T> b(a);
CopyConstructArray(k, s) ==
  /\ UNCHANGED <<deferVars, formatVars, printVars>>
  /\ IsNextSlot(k)
  /\ arrays[s].live
  /\ LET r == ArrayCopyCtor(heap, FreshAddr, arrays[s]) IN
       /\ heap' = r.heap
       /\ arrays' = [arrays EXCEPT ![k] = r.obj]
  /\ Record("copy", k, s, 0, 0)
  /\ run' = NoRun
  /\ copied' = [copy |-> k, src |-> s]

\* Array<T> b = std::move(a);
MoveConstructArray(k, s) ==
  /\ UNCHANGED <<deferVars, formatVars, printVars>>
  /\ IsNextSlot(k)
  /\ arrays[s].live
  /\ LET r == ArrayMoveCtor(heap, FreshAddr, arrays[s]) IN
       /\ heap' = r.heap
       /\ arrays' = [arrays EXCEPT ![k] = r.obj]
  /\ Record("move", k, s, 0, 0)
  /\ run' = NoRun
  /\ UNCHANGED copied

\* a.push(x)
Push(k, x) ==
  /\ UNCHANGED <<deferVars, formatVars, printVars>>
  /\ arrays[k].live
  /\ ArrayLength(heap, arrays[k]) < MaxLen
  /\ LET r == ArrayPush(heap, arrays[k], x) IN
       /\ heap' = r.heap
       /\ Record("push", k, 0, x, r.ret)
  /\ run' = IF run.self = k THEN [run EXCEPT !.vals = Append(@, x)] ELSE NoRun
  /\ UNCHANGED <<arrays, copied>>

\* a.pop(), called as the contract of pop requires: on a non-empty Array
Pop(k) ==
  /\ UNCHANGED <<deferVars, formatVars, printVars>>
  /\ arrays[k].live
  /\ ArrayLength(heap, arrays[k]) > 0
  /\ LET r == ArrayPop(heap, arrays[k]) IN
       /\ heap' = r.heap
       /\ Record("pop", k, 0, 0, r.ret)
  /\ run' = NoRun
  /\ UNCHANGED <<arrays, copied>>

ArrayNext ==
  \/ \E k \in Slots, data \in SeqsUpTo(Values, MaxInit) : Construct(k, data)
  \/ \E k \in Slots, s \in Slots : CopyConstructArray(k, s)
  \/ \E k \in Slots, s \in Slots : MoveConstructArray(k, s)
  \/ \E k \in Slots, x \in Values : Push(k, x)
  \/ \E k \in Slots : Pop(k)

-----------------------------------------------------------------------------
(* Decimal rendering of an integer, as fmt's "{0}" and printf's "%d" do *)

Digit(d) ==
  CASE d = 0 -> "0" [] d = 1 -> "1" [] d = 2 -> "2" [] d = 3 -> "3"
    [] d = 4 -> "4" [] d = 5 -> "5" [] d = 6 -> "6" [] d = 7 -> "7"
    [] d = 8 -> "8" [] d = 9 -> "9"

RECURSIVE DecimalNat(_)
DecimalNat(n) == IF n < 10 THEN Digit(n) ELSE DecimalNat(n \div 10) \o Digit(n % 10)

Decimal(n) == IF n < 0 THEN "-" \o DecimalNat(-n) ELSE DecimalNat(n)

-----------------------------------------------------------------------------
(* array.cpp: fmt::formatter<Array<T>>::format, T = int32 *)

\* fmt::format_to(ctx.out(), "[");
FormatOpenText(out) == out \o "["

\* fmt::format_to(ctx.out(), " {0}", array[i]);
FormatElementText(out, element) == out \o " " \o Decimal(element)

FormatSeparatorText_AlwaysComma(out, i, length) == out \o ","
\* if (i != array.length() - 1) format_to(out, ","); else format_to(out, " ");
FormatSeparatorText(out, i, length) ==
  IF i # length - 1 THEN out \o "," ELSE out \o " "

FormatCloseText_Padded(out) == out \o " ]"
\* return fmt::format_to(ctx.out(), "]");
FormatCloseText(out) == out \o "]"

FormatInit ==
  /\ fArray \in SeqsUpTo(FmtValues, MaxFmtLen)
  /\ fI = 0
  /\ fOut = ""
  /\ fPc = "open"

FormatIdle ==
  /\ fArray = <<>>
  /\ fI = 0
  /\ fOut = ""
  /\ fPc = "open"

\* line 35
FormatOpen ==
  /\ UNCHANGED <<deferVars, arrayVars, printVars>>
  /\ fPc = "open"
  /\ fOut' = FormatOpenText(fOut)
  /\ fPc' = "loop"
  /\ UNCHANGED <<fArray, fI>>

\* lines 37-45: one iteration of the loop
FormatElement ==
  /\ UNCHANGED <<deferVars, arrayVars, printVars>>
  /\ fPc = "loop"
  /\ fI < Len(fArray)
  /\ fOut' = FormatSeparatorText(FormatElementText(fOut, fArray[fI + 1]),
                                 fI, Len(fArray))
  /\ fI' = fI + 1
  /\ UNCHANGED <<fArray, fPc>>

\* line 47, reached when the loop condition fails
FormatClose ==
  /\ UNCHANGED <<deferVars, arrayVars, printVars>>
  /\ fPc = "loop"
  /\ ~(fI < Len(fArray))
  /\ fOut' = FormatCloseText(fOut)
  /\ fPc' = "done"
  /\ UNCHANGED <<fArray, fI>>

FormatNext == FormatOpen \/ FormatElement \/ FormatClose

-----------------------------------------------------------------------------
(* biggie.c: typedef struct String { char* data; ptrdiff_t length; } and    *)
(* void println(string format, void* args[])                                *)

Chars == {"a", "%", "s", "d"}
NUL == "NUL"
\* what the byte at format.data[format.length] can be: the terminator of a
\* STR("...") literal, or any byte where the String is a slice of a longer text
Bytes == Chars \cup {NUL}

StringArg(text) == [type |-> "string", data |-> text, value |-> 0]
Int32Arg(n) == [type |-> "int32", data |-> "", value |-> n]
ArgValues == {StringArg("hi"), Int32Arg(5), Int32Arg(-12)}

\* println(STR("%s and %d"), ...)
ExampleFormat == <<"%", "s", " ", "a", "n", "d", " ", "%", "d", NUL>>

\* the memory at format.data: format.length characters and the byte after them
FormatMemory ==
  {f \in SeqsUpTo(Bytes, MaxFormat + 1) :
     Len(f) >= 1 /\ \A i \in 1..(Len(f) - 1) : f[i] \in Chars}
  \cup {ExampleFormat}

\* no scan of a drawn format consumes more arguments than this
ArgsGiven == (MaxFormat + 2) \div 2

\* format.data[i]
FormatData(i) == pFormat[i + 1]

\* putchar(format.data[i]);
Putchar(out, c) == out \o c

\* char* data = (*(string*)args[argIndex]).data; printf("%s", data);
PrintfS(out, arg) == out \o arg.data

\* int32 data = *(int32*)args[argIndex]; printf("%d", data);
PrintfD(out, arg) == out \o Decimal(arg.value)

PrintInit ==
  /\ pFormat \in FormatMemory
  /\ pLength = Len(pFormat) - 1
  /\ pArgs \in [1..ArgsGiven -> ArgValues]
  /\ pI = 0
  /\ pArgIndex = 0
  /\ pOut = ""
  /\ pReads = {}
  /\ pPc = "scan"

PrintIdle ==
  /\ pFormat = <<NUL>>
  /\ pLength = 0
  /\ pArgs = [k \in 1..ArgsGiven |-> Int32Arg(5)]
  /\ pI = 0
  /\ pArgIndex = 0
  /\ pOut = ""
  /\ pReads = {}
  /\ pPc = "scan"

\* lines 39-41: format.data[i] is not '%'
ScanLiteral ==
  /\ UNCHANGED <<deferVars, arrayVars, formatVars>>
  /\ pPc = "scan"
  /\ pI < pLength
  /\ FormatData(pI) # "%"
  /\ pOut' = Putchar(pOut, FormatData(pI))
  /\ pI' = pI + 1
  /\ pReads' = pReads \cup {pI}
  /\ UNCHANGED <<pFormat, pLength, pArgs, pArgIndex, pPc>>

\* lines 28-33: '%', i += 1, format.data[i] == 's'
\* reading an int32 object through string* is undefined
ScanString ==
  /\ UNCHANGED <<deferVars, arrayVars, formatVars>>
  /\ pPc = "scan"
  /\ pI < pLength
  /\ FormatData(pI) = "%"
  /\ FormatData(pI + 1) = "s"
  /\ pReads' = pReads \cup {pI, pI + 1}
  /\ IF pArgIndex < Len(pArgs) /\ pArgs[pArgIndex + 1].type = "string"
     THEN /\ pOut' = PrintfS(pOut, pArgs[pArgIndex + 1])
          /\ pArgIndex' = pArgIndex + 1
          /\ pI' = pI + 2
          /\ UNCHANGED pPc
     ELSE /\ pPc' = "undefined"
          /\ UNCHANGED <<pOut, pArgIndex, pI>>
  /\ UNCHANGED <<pFormat, pLength, pArgs>>

\* lines 28-29, 34-37: '%', i += 1, format.data[i] == 'd'
\* reading a String object through int32* is undefined
ScanInt ==
  /\ UNCHANGED <<deferVars, arrayVars, formatVars>>
  /\ pPc = "scan"
  /\ pI < pLength
  /\ FormatData(pI) = "%"
  /\ FormatData(pI + 1) = "d"
  /\ pReads' = pReads \cup {pI, pI + 1}
  /\ IF pArgIndex < Len(pArgs) /\ pArgs[pArgIndex + 1].type = "int32"
     THEN /\ pOut' = PrintfD(pOut, pArgs[pArgIndex + 1])
          /\ pArgIndex' = pArgIndex + 1
          /\ pI' = pI + 2
          /\ UNCHANGED pPc
     ELSE /\ pPc' = "undefined"
          /\ UNCHANGED <<pOut, pArgIndex, pI>>
  /\ UNCHANGED <<pFormat, pLength, pArgs>>

\* lines 28-30, 34, 38: '%', i += 1, format.data[i] neither 's' nor 'd'
ScanOther ==
  /\ UNCHANGED <<deferVars, arrayVars, formatVars>>
  /\ pPc = "scan"
  /\ pI < pLength
  /\ FormatData(pI) = "%"
  /\ FormatData(pI + 1) \notin {"s", "d"}
  /\ pReads' = pReads \cup {pI, pI + 1}
  /\ pI' = pI + 2
  /\ UNCHANGED <<pFormat, pLength, pArgs, pArgIndex, pOut, pPc>>

\* line 43, reached when i < format.length fails
PrintNewline ==
  /\ UNCHANGED <<deferVars, arrayVars, formatVars>>
  /\ pPc = "scan"
  /\ ~(pI < pLength)
  /\ pOut' = Putchar(pOut, "\n")
  /\ pPc' = "done"
  /\ UNCHANGED <<pFormat, pLength, pArgs, pI, pArgIndex, pReads>>

PrintNext == ScanLiteral \/ ScanString \/ ScanInt \/ ScanOther \/ PrintNewline

-----------------------------------------------------------------------------
(* Specifications *)

\* generated code using `defer` in nested scopes
InitIdle == DeferInit /\ ArrayInit /\ FormatIdle /\ PrintIdle
SpecDefer == InitIdle /\ [][DeferNext]_vars

\* as SpecDefer, with code that also copy-constructs a guard
CopyNext == DeferNext \/ CopyConstruct
SpecCopy == InitIdle /\ [][CopyNext]_vars

\* generated code constructing and mutating Arrays
SpecArray == InitIdle /\ [][ArrayNext]_vars

\* one call of the formatter on an Array of up to MaxFmtLen elements
InitFormat == DeferInit /\ ArrayInit /\ FormatInit /\ PrintIdle
SpecFormat == InitFormat /\ [][FormatNext]_vars

\* one call of println(format, args)
InitPrintln == DeferInit /\ ArrayInit /\ FormatIdle /\ PrintInit
SpecPrintln == InitPrintln /\ [][PrintNext]_vars

-----------------------------------------------------------------------------
(* Claims about defer.cpp *)

\* the scope with id s has been left: an exit took it and it is off the stack
ScopeLeft(s) ==
  /\ exitOf[s] \in ExitPaths
  /\ \A f \in 1..Depth : scopes[f].id # s

\* the actions of the guards declared in scope s, in order of declaration
GuardsOf(s) ==
  SelectFuncs([i \in 1..Len(declared) |-> declared[i].func],
              {declared[i].func : i \in {j \in 1..Len(declared) : declared[j].scope = s}})

\* the invocations of the actions of scope s, in the order they happened
FiredOf(s) == SelectFuncs(fired, {GuardsOf(s)[i] : i \in 1..Len(GuardsOf(s))})

\* C1: whatever path a scope is left by (fall-through, return, break,
\* continue, throw), the action of every guard declared in it has been
\* invoked exactly once when the scope is gone, and no action is ever
\* invoked twice.
C1_ExactlyOnce ==
  \A i \in 1..Len(declared) :
    /\ Count(fired, declared[i].func) <= 1
    /\ ScopeLeft(declared[i].scope) => Count(fired, declared[i].func) = 1

\* C1 witness: a scope holding two guards or more was left early (not by
\* falling through) and each of its actions ran once.
C1_Witness ==
  \E s \in 1..MaxScopes :
    /\ ScopeLeft(s)
    /\ exitOf[s] \in {"return", "throw", "break", "continue"}
    /\ Len(GuardsOf(s)) >= 2
    /\ \A i \in 1..Len(GuardsOf(s)) : Count(fired, GuardsOf(s)[i]) = 1

\* C2: the actions of one scope fire in the reverse of the order their
\* guards were declared (at any moment of the unwinding what has fired is a
\* prefix of the reversed declarations, and all of it once the scope is
\* gone), and none fires while the scope is still open.
C2_ReverseOrder ==
  \A s \in OpenedScopes :
    /\ IsPrefix(FiredOf(s), Reverse(GuardsOf(s)))
    /\ exitOf[s] = "open" => FiredOf(s) = <<>>
    /\ ScopeLeft(s) => FiredOf(s) = Reverse(GuardsOf(s))

\* C2 witness: a scope declared G1, G2, G3 and was left; the fired order is
\* G3, G2, G1.
C2_Witness ==
  \E s \in 1..MaxScopes :
    /\ ScopeLeft(s)
    /\ Len(GuardsOf(s)) = 3
    /\ FiredOf(s) = <<GuardsOf(s)[3], GuardsOf(s)[2], GuardsOf(s)[1]>>

\* the live __DeferFunc objects holding action a
Holders(a) ==
  {<<f, i>> \in (1..Depth) \X (1..(MaxGuards + MaxCopies)) :
     i <= Len(scopes[f].objs) /\ scopes[f].objs[i].func = a}

\* C3: copying a guard does not make its action run twice: no action is
\* invoked more than once, and once the original and all its copies are
\* destroyed it has been invoked exactly once.
C3_CopyFiresOnce ==
  \A i \in 1..Len(declared) :
    /\ Count(fired, declared[i].func) <= 1
    /\ Holders(declared[i].func) = {} => Count(fired, declared[i].func) = 1

-----------------------------------------------------------------------------
(* Claims about class Array *)

\* C4: an Array behaves as a stack over a sequence: push(x) returns the new
\* length, keeps the elements at their indices and puts x at the last index;
\* after N pushes onto an empty Array length() is N and index(i) is the i-th
\* pushed value; a pop directly after a push(x) returns x and restores the
\* contents and the length of before the push.
C4_StackLaws ==
  /\ [](run.self # 0 =>
          /\ ArrayLength(heap, arrays[run.self]) = Len(run.vals)
          /\ \A i \in 0..(Len(run.vals) - 1) :
               ArrayIndex(heap, arrays[run.self], i) = run.vals[i + 1])
  /\ [][/\ last'.op = "push" =>
             /\ last'.ret = Len(Contents(last'.self)) + 1
             /\ ContentsAfter(last'.self) = Append(Contents(last'.self), last'.arg)
        /\ (last.op = "push" /\ last'.op = "pop" /\ last'.self = last.self) =>
             /\ last'.ret = last.arg
             /\ Append(ContentsAfter(last.self), last.arg) = Contents(last.self)
             /\ Len(ContentsAfter(last.self)) = last.ret - 1]_vars

\* C4 witness: an Array built empty has been pushed to MaxLen times and
\* nothing else, with two different values, so that length() = MaxLen.
C4_Witness ==
  /\ run.self # 0 /\ Len(run.vals) = MaxLen /\ run.vals[1] # run.vals[2]
  /\ last.op = "push" /\ last.self = run.self /\ last.ret = MaxLen

\* C5: a copy-constructed Array holds the source's elements as they were at
\* the copy, the source is left as it was, and a push or pop on one Array
\* leaves the observable contents of every other Array unchanged.
C5_CopyIndependent ==
  [][/\ last'.op = "copy" =>
          /\ ContentsAfter(last'.self) = Contents(last'.src)
          /\ ContentsAfter(last'.src) = Contents(last'.src)
     /\ last'.op \in {"push", "pop"} =>
          \A j \in Slots \ {last'.self} : ContentsAfter(j) = Contents(j)]_vars

\* C5 witness: an Array was copied from a non-empty source and the copy has
\* since grown past the source, the last operation being a push on it.
C5_Witness ==
  /\ copied.copy # 0
  /\ last.op = "push" /\ last.self = copied.copy
  /\ Contents(copied.src) # <<>>
  /\ Len(Contents(copied.copy)) > Len(Contents(copied.src))

\* C6: transfer-construction hands the source's contents to the new Array
\* and leaves the source empty.
C6_MoveEmptiesSource ==
  [][last'.op = "move" =>
       /\ ContentsAfter(last'.self) = Contents(last'.src)
       /\ Len(ContentsAfter(last'.src)) = 0]_vars

-----------------------------------------------------------------------------
(* Claims about the formatter *)

RECURSIVE Listing(_)
\* " e1, e2, ..., en" for a non-empty s
Listing(s) ==
  IF Len(s) = 1 THEN " " \o Decimal(s[1])
  ELSE " " \o Decimal(Head(s)) \o "," \o Listing(Tail(s))

\* C7, as stated: an empty Array renders as "[ ]".
C7_EmptyRendersPadded ==
  (fPc = "done" /\ fArray = <<>>) => fOut = "[ ]"

\* C7, amended: an empty Array renders as "[]", with no space between the
\* brackets.
C7_EmptyRendersBare ==
  (fPc = "done" /\ fArray = <<>>) => fOut = "[]"

\* C7 witness: the formatter has finished on an empty Array.
C7_Witness == fPc = "done" /\ fArray = <<>> /\ Len(fOut) = 2

\* C8: a non-empty Array e1..en renders as "[", then " e1, e2, ..., en",
\* then " ]"; 1, 2, 3 renders as "[ 1, 2, 3 ]".
C8_NonEmptyRendering ==
  (fPc = "done" /\ fArray # <<>>) =>
    /\ fOut = "[" \o Listing(fArray) \o " ]"
    /\ fArray = <<1, 2, 3>> => fOut = "[ 1, 2, 3 ]"
    /\ fArray = <<10, -7>> => fOut = "[ 10, -7 ]"

\* C8 witness: the formatter has finished on the Array 1, 2, 3.
C8_Witness == fPc = "done" /\ fArray = <<1, 2, 3>> /\ fOut = "[ 1, 2, 3 ]"

-----------------------------------------------------------------------------
(* Claims about println *)

\* the characters of the format: format.data[0 .. format.length - 1]
FormatText == SubSeq(pFormat, 1, pLength)

Rendered(arg) == IF arg.type = "string" THEN arg.data ELSE Decimal(arg.value)

RECURSIVE ClaimedOutput(_, _, _)
\* the scan as claimed, over the characters f with k arguments consumed: a
\* directive is '%' and the character after it; %s and %d emit the next
\* argument, any other directive emits nothing; every other character, a
\* final '%' with no character after it included, is emitted as it is
ClaimedOutput(f, args, k) ==
  IF f = <<>> THEN ""
  ELSE IF Head(f) = "%" /\ Len(f) >= 2
       THEN IF f[2] \in {"s", "d"}
            THEN Rendered(args[k + 1]) \o ClaimedOutput(SubSeq(f, 3, Len(f)), args, k + 1)
            ELSE ClaimedOutput(SubSeq(f, 3, Len(f)), args, k)
       ELSE Head(f) \o ClaimedOutput(Tail(f), args, k)

RECURSIVE Directives(_)
\* the number of %s and %d directives among the characters f
Directives(f) ==
  IF f = <<>> THEN 0
  ELSE IF Head(f) = "%" /\ Len(f) >= 2
       THEN (IF f[2] \in {"s", "d"} THEN 1 ELSE 0) + Directives(SubSeq(f, 3, Len(f)))
       ELSE Directives(Tail(f))

\* C9: a completed println has written the format's characters with the k-th
\* %s or %d directive replaced by argument k-1, then one newline; it has
\* consumed one argument per directive and no more; "%s and %d" with
\* ["hi", 5] writes "hi and 5" and a newline.
C9_ScanOutput ==
  pPc = "done" =>
    /\ pOut = ClaimedOutput(FormatText, pArgs, 0) \o "\n"
    /\ pArgIndex = Directives(FormatText)
    /\ (pFormat = ExampleFormat /\ pArgs[1] = StringArg("hi") /\ pArgs[2] = Int32Arg(5))
         => pOut = "hi and 5\n"

\* C10: println reads format.data[i] only at 0 <= i < format.length.
C10_ReadsInBounds == \A i \in pReads : 0 <= i /\ i < pLength

====
